---- MODULE Spec2Model ----
(***************************************************************************)
(* Guest accounts of the Open Collective API: creation and reuse of guest  *)
(* profiles (server/lib/guest-accounts.ts), their confirmation and the     *)
(* linking of other guest profiles, and the GraphQL mutation that wraps    *)
(* the confirmation (server/graphql/v2/mutation/GuestMutations.ts).        *)
(*                                                                         *)
(* The database is four tables (Collectives, Users, GuestTokens, Orders);  *)
(* a row's id is its index in the table's sequence.  Every library         *)
(* function is an operator from a database value and the call's arguments  *)
(* to the call's outcome and the database it leaves; one action per        *)
(* function applies it to the current database.                            *)
(*                                                                         *)
(* Further specifications over the same variables: SpecDetails (a guest    *)
(* profile resumed with new details), SpecMail (sendGuestConfirmationEmail *)
(* and its rate limits), SpecConcurrent (confirmGuestAccount one await at  *)
(* a time, several calls interleaved), SpecCreate (createGuestProfile one  *)
(* statement of its transaction at a time) and SpecCard (addCreditCard and *)
(* confirmCreditCard over the PaymentMethods table).                       *)
(***************************************************************************)
EXTENDS Integers, Sequences, FiniteSets, TLC

VARIABLES collectives, users, guestTokens, orders, merges, last,
          rateLimits, lastMail, calls, transactions,
          paymentMethods, lastCard

\* The rate limiter's counters, and the outcome of the last
\* sendGuestConfirmationEmail with the emails it handed to the email library.
mailVars == <<rateLimits, lastMail>>

\* The PaymentMethods table and the outcome of the last credit-card mutation.
cardVars == <<paymentMethods, lastCard>>

\* The tables, and the outcome of the last call that ran as one step.
DBVars == <<collectives, users, guestTokens, orders, merges, last>>

\* What the calls of the guest-accounts library that run as one step never
\* touch: the state of the email mutation, and the calls of
\* confirmGuestAccount that are under way, each with its position and the
\* values it holds; the transactions of createGuestProfile that are open,
\* each with its position and the writes it has made and not committed.
otherVars == <<mailVars, calls, transactions, cardVars>>

vars == <<collectives, users, guestTokens, orders, merges, last, otherVars>>

\* ------------------------------------------------------------------ bounds

\* Rows the Collectives table may hold (creation is disabled beyond it).
MaxAccounts == 2

\* Rows the Orders table may hold.
MaxOrders == 1

\* Calls of confirmGuestAccount that may run at the same time.
MaxCalls == 2

\* Calls of createGuestProfile that may run at the same time.
MaxCreators == 2

\* Rows the PaymentMethods table may hold.
MaxPaymentMethods == 2

\* The quotas of the configuration (config.limits), per minute: calls of
\* sendGuestConfirmationEmail from one IP, and for one email.
confirmGuestEmailPerMinutePerIp == 2

confirmGuestEmailPerMinute == 1

\* ------------------------------------------------------- values and inputs

\* JavaScript's null and undefined (the code never tells them apart).
NULL == "NULL"

DEFAULT_GUEST_NAME == "Guest"

INVALID_TOKEN_MSG == "Your guest token is invalid. If you already have an account, please sign in."

EMAIL_REQUIRED_MSG == "An email is required to create a guest profile"

ACCOUNT_EXISTS_MSG == "An account already exists for this email, please sign in."

INVALID_CONFIRMATION_MSG == "Invalid email confirmation token"

ALREADY_VERIFIED_MSG == "This account has already been verified"

TOO_MANY_PROFILES_MSG == "Cannot link more than 30 profiles at the same time"

\* user.getCollective() returned null and its name was read.
TYPE_ERROR == "TypeError"

OK == "ok"

\* The resolver's limit on the guestTokens list.
MaxLinkedProfiles == 30

COLLECTIVE_TYPE_USER == "USER"

\* Email strings a caller may send: an address, the same address after a
\* blank, and another address (which differs from the first by case only).
Emails == {"a", " a", "A"}

\* The email argument: an email, or none (null or the empty string).
EmailInputs == Emails \cup {NULL}

\* The name argument the actions draw, and the wider set every property
\* ranges over.
NameInputs == {NULL, "Zappa"}

NameArgs == NameInputs \cup {"", "Joe"}

\* An optional Location argument: given is FALSE for null or undefined.
NoLocation == [given |-> FALSE, country |-> NULL, address |-> NULL]

\* The location argument the actions draw, and the wider set every property
\* ranges over.
LocationInputs == {NoLocation}

LocationArgs == LocationInputs \cup
    {[given |-> TRUE, country |-> "FR", address |-> NULL],
     [given |-> TRUE, country |-> "", address |-> "x"]}

\* An optional list of guest token values, as the code reads it: by its length
\* and by which values are in it (given is FALSE for null or undefined).
NoList == [given |-> FALSE, values |-> {}, length |-> 0]

\* String.prototype.trim on the strings of Emails.
trim(str) == IF str = " a" THEN "a" ELSE str

\* String.prototype.toLowerCase on the strings of Emails.
toLowerCase(str) == IF str = "A" THEN "a" ELSE str

\* JavaScript truthiness of a string-or-null value.
Truthy(v) == v # NULL /\ v # ""

\* crypto.randomBytes(48).toString('hex'): a value no earlier call drew.
guestTokenValue(id) == "t" \o ToString(id)

emailConfirmationTokenValue(id) == "c" \o ToString(id)

\* ------------------------------------------------------------ the database

DB == [collectives |-> collectives, users |-> users, guestTokens |-> guestTokens,
       orders |-> orders, merges |-> merges]

Ids(table) == 1..Len(table)

\* The smallest id of a set of ids (findOne returns the first row), 0 if none.
First(ids) == IF ids = {} THEN 0 ELSE CHOOSE i \in ids : \A j \in ids : i <= j

\* models.User.findOne({ where: { email } })
findUserByEmail(s, email) ==
    First({u \in Ids(s.users) : s.users[u].email = email})

\* models.User.findOne({ where: { CollectiveId } })
findUserByCollectiveId(s, cid) ==
    First({u \in Ids(s.users) : s.users[u].CollectiveId = cid})

\* models.User.findOne({ where: { emailConfirmationToken } })
findUserByConfirmationToken(s, ect) ==
    First({u \in Ids(s.users) : s.users[u].emailConfirmationToken = ect})

\* A collective a paranoid query returns: not soft-deleted.
LiveCollective(s, cid) ==
    cid \in Ids(s.collectives) /\ ~s.collectives[cid].deletedAt

\* models.GuestToken.findOne({ where: { value }, include: collective, required })
findGuestToken(s, value) ==
    First({t \in Ids(s.guestTokens) :
             /\ s.guestTokens[t].value = value
             /\ ~s.guestTokens[t].deletedAt
             /\ LiveCollective(s, s.guestTokens[t].CollectiveId)})

\* What a call hands back: its result (OK or the message of the error thrown),
\* the ids of the rows returned (0 when none) and the database it leaves.
Outcome(result, collective, user, token, db) ==
    [result |-> result, collective |-> collective, user |-> user,
     token |-> token, db |-> db]

Failure(msg, db) == Outcome(msg, 0, 0, 0, db)

\* ------------------------------------------- server/lib/guest-accounts.ts

\* loadGuestToken: the token row of a value, its collective and the user whose
\* CollectiveId is that collective; error is the message thrown, or NULL.
loadGuestToken(s, guestToken) ==
    LET token == findGuestToken(s, guestToken)
        cid == IF token = 0 THEN 0 ELSE s.guestTokens[token].CollectiveId
        user == IF token = 0 THEN 0 ELSE findUserByCollectiveId(s, cid)
    IN  IF token = 0 \/ user = 0
        THEN [error |-> INVALID_TOKEN_MSG, token |-> 0, collective |-> 0, user |-> 0]
        ELSE [error |-> NULL, token |-> token, collective |-> cid, user |-> user]

\* The row models.Collective.create receives in createGuestProfile.
newGuestCollective(id, name, location) ==
    [type |-> COLLECTIVE_TYPE_USER,
     slug |-> <<"guest", id>>,
     name |-> IF name = NULL THEN DEFAULT_GUEST_NAME ELSE name,
     data |-> [isGuest |-> TRUE],
     address |-> IF location.given THEN location.address ELSE NULL,
     countryISO |-> IF location.given THEN location.country ELSE NULL,
     CreatedByUserId |-> 0,
     deletedAt |-> FALSE]

\* A variant of newGuestUser that stores the email trimmed.
newGuestUserTrimmed(id, email, cid) ==
    [email |-> trim(email),
     confirmedAt |-> FALSE,
     CollectiveId |-> cid,
     emailConfirmationToken |-> emailConfirmationTokenValue(id)]

\* The row models.User.create receives in createGuestProfile.
newGuestUser(id, email, cid) ==
    [email |-> email,
     confirmedAt |-> FALSE,
     CollectiveId |-> cid,
     emailConfirmationToken |-> emailConfirmationTokenValue(id)]

\* The row models.GuestToken.create receives; issuedFor is history (the email
\* of the call that drew the token), no column of the table.
newGuestToken(id, cid, email) ==
    [CollectiveId |-> cid,
     value |-> guestTokenValue(id),
     deletedAt |-> FALSE,
     issuedFor |-> email]

\* The transaction of createGuestProfile: a throw inside it rolls everything
\* back, so a failed call leaves the database as it was.
createGuestProfileTransaction(s, email, name, location) ==
    LET cid == Len(s.collectives) + 1
        found == findUserByEmail(s, email)
        uid == IF found = 0 THEN Len(s.users) + 1 ELSE found
        tid == Len(s.guestTokens) + 1
        collective == [newGuestCollective(cid, name, location)
                         EXCEPT !.CreatedByUserId = uid]
    IN  IF found # 0 /\ s.users[found].confirmedAt
        THEN Failure(ACCOUNT_EXISTS_MSG, s)
        ELSE Outcome(OK, cid, uid, tid,
               [s EXCEPT
                  !.collectives = Append(@, collective),
                  !.users = IF found = 0
                            THEN Append(@, newGuestUser(uid, email, cid))
                            ELSE @,
                  !.guestTokens = Append(@, newGuestToken(tid, cid, email))])

\* A variant of createGuestProfile that hands back the profile an unconfirmed
\* user of the email already has instead of creating one.
createGuestProfileReusingProfile(s, email, name, location) ==
    LET found == findUserByEmail(s, email)
    IN  IF ~Truthy(email)
        THEN Failure(EMAIL_REQUIRED_MSG, s)
        ELSE IF found # 0 /\ ~s.users[found].confirmedAt
        THEN Outcome(OK, s.users[found].CollectiveId, found, 0, s)
        ELSE createGuestProfileTransaction(s, email, name, location)

\* createGuestProfile
createGuestProfile(s, email, name, location) ==
    IF ~Truthy(email)
    THEN Failure(EMAIL_REQUIRED_MSG, s)
    ELSE createGuestProfileTransaction(s, email, name, location)

\* A variant of fieldsToUpdate that takes every supplied value, empty or not.
fieldsToUpdateUnconditional(collective, name, location) ==
    {"name"} \cup (IF location.given THEN {"countryISO", "address"} ELSE {})

\* updateCollective's fieldsToUpdate: the keys it sets.
fieldsToUpdate(collective, name, location) ==
    (IF Truthy(name) /\ collective.name # name THEN {"name"} ELSE {})
    \cup (IF location.given /\ Truthy(location.country)
             /\ location.country # collective.countryISO
          THEN {"countryISO"} ELSE {})
    \cup (IF location.given /\ Truthy(location.address)
             /\ location.address # collective.address
          THEN {"address"} ELSE {})

\* updateCollective: the collective as it is when fieldsToUpdate is empty,
\* else the collective after collective.update(fieldsToUpdate).
updateCollective(collective, name, location) ==
    LET fields == fieldsToUpdate(collective, name, location)
    IN  IF fields = {}
        THEN collective
        ELSE [collective EXCEPT
                !.name = IF "name" \in fields THEN name ELSE @,
                !.countryISO = IF "countryISO" \in fields THEN location.country ELSE @,
                !.address = IF "address" \in fields THEN location.address ELSE @]

\* A variant of isDifferentEmail that never sends a call with a token to the
\* creation of a profile.
isDifferentEmailNever(userEmail, email) == FALSE

\* A variant of isDifferentEmail that compares the emails without their case.
isDifferentEmailIgnoringCase(userEmail, email) ==
    Truthy(email) /\ toLowerCase(userEmail) # toLowerCase(trim(email))

\* The test of getGuestProfileFromToken's second branch: an email is given
\* and is not the token's user's.
isDifferentEmail(userEmail, email) ==
    Truthy(email) /\ userEmail # trim(email)

\* getGuestProfileFromToken
getGuestProfileFromToken(s, tokenValue, email, name, location) ==
    LET l == loadGuestToken(s, tokenValue)
    IN  IF l.error # NULL
        THEN Failure(l.error, s)
        ELSE IF s.users[l.user].confirmedAt
        THEN Failure(ACCOUNT_EXISTS_MSG, s)
        ELSE IF isDifferentEmail(s.users[l.user].email, email)
        THEN createGuestProfile(s, email, name, location)
        ELSE Outcome(OK, l.collective, l.user, l.token,
               [s EXCEPT !.collectives[l.collective] =
                           updateCollective(@, name, location)])

\* getOrCreateGuestProfile
getOrCreateGuestProfile(s, email, token, name, location) ==
    IF Truthy(token)
    THEN getGuestProfileFromToken(s, token, email, name, location)
    ELSE createGuestProfile(s, email, name, location)

\* user.update({ emailConfirmationToken: null, confirmedAt: new Date() })
confirmedUser(user) ==
    [user EXCEPT !.emailConfirmationToken = NULL, !.confirmedAt = TRUE]

\* slugify of the names the model uses.
slugify(name) ==
    CASE name = "Zappa" -> "zappa"
      [] name = "Incognito" -> "incognito"
      [] name = DEFAULT_GUEST_NAME -> "guest"
      [] OTHER -> name

\* models.Collective.generateSlug([name]): the slugified name with the first
\* suffix no collective's slug uses.
generateSlug(s, name) ==
    LET taken(k) == \E c \in Ids(s.collectives) :
                       s.collectives[c].slug = <<slugify(name), k>>
    IN  <<slugify(name),
          First({k \in 0..Len(s.collectives) : ~taken(k)})>>

\* The name confirmGuestAccount gives the profile.
newName(collective, name) ==
    IF name # NULL THEN name
    ELSE IF collective.name # DEFAULT_GUEST_NAME THEN collective.name
    ELSE "Incognito"

\* A variant of spreadIsGuestFalse that drops the other keys.
onlyIsGuestFalse(data) == [isGuest |-> FALSE]

\* { ...data, isGuest: false }
spreadIsGuestFalse(data) ==
    [k \in DOMAIN data \cup {"isGuest"} |->
       IF k = "isGuest" THEN FALSE ELSE data[k]]

\* userCollective.update({ name, slug, data }) of confirmGuestAccount.
confirmedProfile(s, collective, name) ==
    [collective EXCEPT
       !.name = newName(collective, name),
       !.slug = generateSlug(s, newName(collective, name)),
       !.data = spreadIsGuestFalse(collective.data)]

\* data: { isGuest: true } as a where clause.
isGuestData(data) == "isGuest" \in DOMAIN data /\ data["isGuest"] = TRUE

\* models.GuestToken.findAll of confirmGuestAccount: the live tokens whose
\* value is in the list and whose live collective is a guest profile other
\* than the user's.
findLinkedGuestTokens(s, values, userCollectiveId) ==
    {t \in Ids(s.guestTokens) :
       /\ s.guestTokens[t].value \in values
       /\ ~s.guestTokens[t].deletedAt
       /\ LiveCollective(s, s.guestTokens[t].CollectiveId)
       /\ s.guestTokens[t].CollectiveId # userCollectiveId
       /\ isGuestData(s.collectives[s.guestTokens[t].CollectiveId].data)}

\* mergeCollectives(from, into) of lib/collectivelib: the orders and
\* transactions of from now belong to into, and from is soft-deleted.  merges
\* is history: one entry per call.
mergeCollectives(s, from, into) ==
    [s EXCEPT
       !.orders = [o \in Ids(s.orders) |->
                     [FromCollectiveId |->
                        IF s.orders[o].FromCollectiveId = from
                        THEN into ELSE s.orders[o].FromCollectiveId,
                      TransactionsCollectiveId |->
                        IF s.orders[o].TransactionsCollectiveId = from
                        THEN into ELSE s.orders[o].TransactionsCollectiveId]],
       !.collectives[from].deletedAt = TRUE,
       !.merges = Append(@, <<from, into>>)]

\* Promise.all(guestTokens.map(token => mergeCollectives(token.collective,
\* userCollective))): one merge per token found; a merge touches only its own
\* source, so the order they complete in does not show.
RECURSIVE mergeAll(_, _, _)
mergeAll(s, tokens, into) ==
    IF tokens = {} THEN s
    ELSE LET t == First(tokens)
         IN  mergeAll(mergeCollectives(s, s.guestTokens[t].CollectiveId, into),
                      tokens \ {t}, into)

\* models.GuestToken.destroy({ where: { CollectiveId: { [Op.in]: ids } } })
destroyGuestTokens(s, ids) ==
    [s EXCEPT !.guestTokens =
       [t \in Ids(s.guestTokens) |->
          IF s.guestTokens[t].CollectiveId \in ids
          THEN [s.guestTokens[t] EXCEPT !.deletedAt = TRUE]
          ELSE s.guestTokens[t]]]

\* A variant of allCollectiveIds that leaves out the linked profiles.
allCollectiveIdsOfUserOnly(s, userCollectiveId, tokens) == {userCollectiveId}

\* The collective ids confirmGuestAccount deletes the tokens of.
allCollectiveIds(s, userCollectiveId, tokens) ==
    {userCollectiveId} \cup {s.guestTokens[t].CollectiveId : t \in tokens}

\* A variant of isAlreadyVerified that lets a confirmed user through.
isAlreadyVerifiedNever(user) == FALSE

\* The second test of confirmGuestAccount: user.confirmedAt is set.
isAlreadyVerified(user) == user.confirmedAt

\* confirmGuestAccount.  Nothing is in a transaction: the user's update stays
\* when a later step throws.
confirmGuestAccount(s, emailConfirmationToken, name, guestTokensValues) ==
    LET uid == findUserByConfirmationToken(s, emailConfirmationToken)
    IN  IF uid = 0
        THEN Failure(INVALID_CONFIRMATION_MSG, s)
        ELSE IF isAlreadyVerified(s.users[uid])
        THEN Failure(ALREADY_VERIFIED_MSG, s)
        ELSE
        LET s1 == [s EXCEPT !.users[uid] = confirmedUser(@)]
            cid == s.users[uid].CollectiveId
        IN  IF ~LiveCollective(s1, cid)
            THEN Failure(TYPE_ERROR, s1)
            ELSE
            LET s2 == [s1 EXCEPT !.collectives[cid] = confirmedProfile(s1, @, name)]
                tokens == IF guestTokensValues.given /\ guestTokensValues.length > 0
                          THEN findLinkedGuestTokens(s2, guestTokensValues.values, cid)
                          ELSE {}
                s3 == mergeAll(s2, tokens, cid)
            IN  Outcome(OK, cid, uid, 0,
                  destroyGuestTokens(s3, allCollectiveIds(s2, cid, tokens)))

\* --------------------------- server/graphql/v2/mutation/GuestMutations.ts

\* A variant of the resolver whose test is off by one.
confirmGuestAccountMutationOffByOne(s, emailConfirmationToken, guestTokensArg, name) ==
    IF guestTokensArg.given /\ guestTokensArg.length > MaxLinkedProfiles + 1
    THEN Failure(TOO_MANY_PROFILES_MSG, s)
    ELSE confirmGuestAccount(s, emailConfirmationToken, name, NoList)

\* guestMutations.confirmGuestAccount.resolve: args.guestTokens is read for
\* its length only; confirmGuestAccount is called with the confirmation token
\* and the name, its third parameter left undefined.
confirmGuestAccountMutation(s, emailConfirmationToken, guestTokensArg, name) ==
    IF guestTokensArg.given /\ guestTokensArg.length > MaxLinkedProfiles
    THEN Failure(TOO_MANY_PROFILES_MSG, s)
    ELSE confirmGuestAccount(s, emailConfirmationToken, name, NoList)


\* ------------------- GuestMutations.ts: sendGuestConfirmationEmail

SIGNED_IN_MSG == "You're signed in"

RATE_LIMIT_IP_MSG == "An email has already been sent recently"

RATE_LIMIT_EMAIL_MSG == "An email has already been sent for this address recently"

NO_USER_MSG == "No user found for this email address"

ALREADY_CONFIRMED_MSG == "This account has already been confirmed"

BadRequest == "BadRequest"

NotFound == "NotFound"

RateLimitExceeded == "RateLimitExceeded"

\* The addresses of the callers.
IPs == {"1.1.1.1", "2.2.2.2"}

\* The email argument: the emails of the guest flow and one no User has.
MailEmails == Emails \cup {"b"}

\* Buffer.from(email).toString('base64'), on the normalized emails.
base64(str) ==
    IF str = "a" THEN "YQ=="
    ELSE IF str = "b" THEN "Yg=="
    ELSE IF str = "A" THEN "QQ=="
    ELSE IF str = " a" THEN "IGE="
    ELSE "?"

\* The keys of the two limits.
ipKey(ip) == "confirm_guest_account_ip_" \o ip \o "}"

emailKey(email) == "confirm_guest_account_email_" \o base64(email)

RateLimitKeys ==
    {ipKey(ip) : ip \in IPs} \cup {emailKey(e) : e \in MailEmails}

\* RateLimit.registerCall: refused when the key's count of the running
\* window has reached the limit, else counted.
registerCall(limits, key, limit) ==
    IF limits[key] >= limit
    THEN [ok |-> FALSE, rateLimits |-> limits]
    ELSE [ok |-> TRUE, rateLimits |-> [limits EXCEPT ![key] = @ + 1]]

\* models.User.findOne({ where: { email }, include: collective, required })
findUserWithCollectiveByEmail(s, email) ==
    First({u \in Ids(s.users) :
             /\ s.users[u].email = email
             /\ LiveCollective(s, s.users[u].CollectiveId)})

\* What sendGuestConfirmationEmail hands back: true, or the error thrown;
\* the counters it leaves and the emails it sent.
MailOutcome(result, message, limits, mails) ==
    [result |-> result, message |-> message, rateLimits |-> limits, mails |-> mails]

\* emailLib.send('confirm-guest-account', user.email, { email, verifyAccountLink })
confirmationMail(user) ==
    [template |-> "confirm-guest-account", to |-> user.email, email |-> user.email,
     verifyAccountLink |-> <<"/confirm/guest/", user.emailConfirmationToken,
                             "?email=", user.email>>]

\* A variant of the resolver's normalization that keeps the email as typed.
normalizedEmailAsTyped(email) == email

\* (<string>args.email).trim().toLowerCase()
normalizedEmail(email) == toLowerCase(trim(email))

\* A variant of rateLimitOnIP that grants an IP the quota of an email.
rateLimitOnIPWithEmailQuota(limits, ip) ==
    registerCall(limits, ipKey(ip), confirmGuestEmailPerMinute)

\* new RateLimit(`confirm_guest_account_ip_${req.ip}}`, perIp, 60).registerCall()
rateLimitOnIP(limits, ip) ==
    registerCall(limits, ipKey(ip), confirmGuestEmailPerMinutePerIp)

\* new RateLimit(`confirm_guest_account_email_${base64}`, perEmail, 60).registerCall()
rateLimitOnEmail(limits, email) ==
    registerCall(limits, emailKey(email), confirmGuestEmailPerMinute)

\* sendGuestConfirmationEmail.resolve; remoteUser is 0 for a caller who is
\* not signed in.
sendGuestConfirmationEmail(s, limits, remoteUser, ip, emailArg) ==
    IF remoteUser # 0
    THEN MailOutcome(BadRequest, SIGNED_IN_MSG, limits, <<>>)
    ELSE
    LET onIP == rateLimitOnIP(limits, ip)
    IN  IF ~onIP.ok
        THEN MailOutcome(RateLimitExceeded, RATE_LIMIT_IP_MSG, onIP.rateLimits, <<>>)
        ELSE
    LET email == normalizedEmail(emailArg)
        onEmail == rateLimitOnEmail(onIP.rateLimits, email)
    IN  IF ~onEmail.ok
        THEN MailOutcome(RateLimitExceeded, RATE_LIMIT_EMAIL_MSG, onEmail.rateLimits, <<>>)
        ELSE
    LET user == findUserWithCollectiveByEmail(s, email)
    IN  IF user = 0
        THEN MailOutcome(NotFound, NO_USER_MSG, onEmail.rateLimits, <<>>)
        ELSE IF s.users[user].confirmedAt
        THEN MailOutcome(BadRequest, ALREADY_CONFIRMED_MSG, onEmail.rateLimits, <<>>)
        ELSE MailOutcome(OK, NULL, onEmail.rateLimits,
                         <<confirmationMail(s.users[user])>>)
\* ------------------------------------------------ rows made outside src/

\* fakeUser({ confirmedAt, emailConfirmationToken }) of the test helpers, and
\* any sign-up outside the guest flow: a user with a profile that is no guest
\* profile and holds no guest token.  A confirmed user may hold a confirmation
\* token (the token also serves email changes).
fakeUser(s, email, confirmed, withToken) ==
    LET cid == Len(s.collectives) + 1
        uid == Len(s.users) + 1
    IN  [s EXCEPT
           !.collectives = Append(@,
              [type |-> COLLECTIVE_TYPE_USER,
               slug |-> <<"user", cid>>,
               name |-> "Zappa",
               data |-> [hideFromSearch |-> FALSE],
               address |-> NULL,
               countryISO |-> NULL,
               CreatedByUserId |-> uid,
               deletedAt |-> FALSE]),
           !.users = Append(@,
              [email |-> email,
               confirmedAt |-> confirmed,
               CollectiveId |-> cid,
               emailConfirmationToken |->
                 IF withToken THEN emailConfirmationTokenValue(uid) ELSE NULL])]

\* fakeOrder({ FromCollectiveId }, { withTransactions: true })
fakeOrder(s, cid) ==
    [s EXCEPT !.orders = Append(@, [FromCollectiveId |-> cid,
                                    TransactionsCollectiveId |-> cid])]

\* ------------------------------------------------------------- the inputs

\* Guest token values: every value ever issued, and one that never was.
IssuedGuestTokenValues(s) == {s.guestTokens[t].value : t \in Ids(s.guestTokens)}

GuestTokenValues(s) == IssuedGuestTokenValues(s) \cup {"bogus"}

\* The token argument: a value, or none (null or the empty string).
GuestTokenInputs(s) == IssuedGuestTokenValues(s) \cup {NULL}

GuestTokenArgs(s) == GuestTokenValues(s) \cup {NULL, ""}

\* Confirmation tokens a caller may send: those ever drawn, and one that
\* never was.
ConfirmationTokenInputs(s) ==
    {emailConfirmationTokenValue(u) : u \in Ids(s.users)} \cup {"InvalidToken"}

\* A list of n >= 1 values, the values of vs and repeats of them.
List(vs, n) == [given |-> TRUE, values |-> vs, length |-> n]

\* Lists of guest token values the actions draw: absent, one issued value,
\* every value, and every value padded with repeats to one past the
\* resolver's limit.
ListInputs(s) ==
    {NoList} \cup
    {List({v}, 1) : v \in IssuedGuestTokenValues(s)} \cup
    {List(GuestTokenValues(s), n) :
       n \in {Cardinality(GuestTokenValues(s)), MaxLinkedProfiles + 1}}

\* The lists every property ranges over: absent, empty, and every set of
\* values at its own length, at the resolver's limit and one past it.
ListArgs(s) ==
    {NoList, [given |-> TRUE, values |-> {}, length |-> 0]} \cup
    {List(vs, n) : vs \in SUBSET GuestTokenValues(s) \ {{}},
                   n \in {MaxLinkedProfiles, MaxLinkedProfiles + 1}} \cup
    {List(vs, Cardinality(vs)) : vs \in SUBSET GuestTokenValues(s) \ {{}}}

\* The lists the resolver's action draws: it reads the length only.
ResolverListInputs(s) ==
    {NoList} \cup
    {List(GuestTokenValues(s), n) :
       n \in {Cardinality(GuestTokenValues(s)), MaxLinkedProfiles + 1}}

\* ----------------------- the credit-card mutations (paymentMethodMutations)

Forbidden == "Forbidden"

STRIPE_ERROR == "StripeError"

\* What setupCreditCard may do: succeed without or with a setupIntent left
\* in the payment method's data, ask for authentication (an error that
\* carries Stripe's response, the setupIntent stored), or fail otherwise.
StripeOutcomes == {"succeeded", "succeeded with setupIntent", "requires_action", "error"}

\* args.creditCardInfo: the token and the card's details, one of them a key
\* that pick leaves out.
CreditCardInfos == {[token |-> "tok_1", brand |-> "visa", cvc |-> "123"]}

pickedKeys == {"brand", "country", "expMonth", "expYear", "fullName", "funding", "zip"}

\* lodash pick(object, keys)
pick(object, keys) == [k \in DOMAIN object \cap keys |-> object[k]]

\* data with the setupIntent Stripe created.
withSetupIntent(data) ==
    [k \in DOMAIN data \cup {"setupIntent"} |->
       IF k = "setupIntent" THEN "seti_1" ELSE data[k]]

\* if (pm.data.setupIntent) { delete pm.data.setupIntent }
deleteSetupIntent(data) == [k \in DOMAIN data \ {"setupIntent"} |-> data[k]]

\* remoteUser.isAdminOfCollective(collective): a User administers its own
\* profile.
isAdminOfCollective(s, remoteUser, collective) ==
    s.users[remoteUser].CollectiveId = collective

\* newPaymentMethodData; requested and stripeError are history (the
\* isSavedForLater of the call that created the row, and whether that call
\* set pm.stripeError), no columns of the table.
newPaymentMethodData(remoteUser, collective, name, isSavedForLater, creditCardInfo) ==
    [service |-> "stripe",
     type |-> "creditcard",
     name |-> name,
     CreatedByUserId |-> remoteUser,
     saved |-> isSavedForLater,
     CollectiveId |-> collective,
     token |-> creditCardInfo.token,
     data |-> pick(creditCardInfo, pickedKeys),
     confirmedAt |-> FALSE,
     requested |-> isSavedForLater,
     stripeError |-> FALSE]

\* setupCreditCard(pm, { collective, user }), when it does not throw an
\* error without a Stripe response: the payment method it leaves.
setupCreditCard(pm, stripe) ==
    IF stripe \in {"succeeded with setupIntent", "requires_action"}
    THEN [pm EXCEPT !.data = withSetupIntent(@)]
    ELSE pm

\* What a credit-card mutation hands back: the payment method's id, whether
\* a stripeError comes with it and shouldBeSaved (NULL when not set), or the
\* error thrown; and the table it leaves.
CardOutcome(result, paymentMethod, stripeError, shouldBeSaved, pms) ==
    [result |-> result, paymentMethod |-> paymentMethod, stripeError |-> stripeError,
     shouldBeSaved |-> shouldBeSaved, paymentMethods |-> pms]

\* A variant of unsaved that leaves the saved flag as requested.
unsavedNot(pm) == pm

\* pm.update({ saved: false })
unsaved(pm) == [pm EXCEPT !.saved = FALSE]

\* pm.stripeError = { message, account, response }
withStripeError(pm) == [pm EXCEPT !.stripeError = TRUE]

\* pm.update({ confirmedAt: new Date(), data: pm.data }) after the delete.
confirmedPaymentMethod(pm) ==
    [pm EXCEPT !.confirmedAt = TRUE, !.data = deleteSetupIntent(@)]

\* addCreditCard.resolve
addCreditCard(s, pms, remoteUser, account, name, isSavedForLater, creditCardInfo, stripe) ==
    IF ~LiveCollective(s, account)
    THEN CardOutcome(NotFound, 0, FALSE, NULL, pms)
    ELSE IF ~isAdminOfCollective(s, remoteUser, account)
    THEN CardOutcome(Forbidden, 0, FALSE, NULL, pms)
    ELSE
    LET id == Len(pms) + 1
        pm == newPaymentMethodData(remoteUser, account, name, isSavedForLater,
                                   creditCardInfo)
    IN  IF stripe = "error"
        THEN CardOutcome(STRIPE_ERROR, 0, FALSE, NULL, Append(pms, pm))
        ELSE IF stripe = "requires_action"
        THEN CardOutcome(OK, id, TRUE, isSavedForLater,
                         Append(pms, withStripeError(unsaved(setupCreditCard(pm, stripe)))))
        ELSE CardOutcome(OK, id, FALSE, NULL,
                         Append(pms, confirmedPaymentMethod(setupCreditCard(pm, stripe))))

\* confirmCreditCard.resolve
confirmCreditCard(pms, paymentMethod, shouldBeSaved) ==
    IF paymentMethod \notin Ids(pms)
    THEN CardOutcome(NotFound, 0, FALSE, NULL, pms)
    ELSE CardOutcome(OK, paymentMethod, FALSE, NULL,
           [pms EXCEPT ![paymentMethod] =
              [confirmedPaymentMethod(@) EXCEPT !.saved = shouldBeSaved]])

\* ------------------------------------- createGuestProfile, await by await

Creators == 1..MaxCreators

\* A call that has not started: no transaction is open.  wrote is the set of
\* the writes made in the transaction, user the User findOne returned.
IdleTransaction ==
    [pc |-> "idle", email |-> NULL, name |-> NULL, location |-> NoLocation,
     wrote |-> {}, user |-> 0, result |-> NULL, collective |-> 0]

UNIQUE_EMAIL_MSG == "SequelizeUniqueConstraintError"

\* The commit of sequelize.transaction: the rows written in the transaction
\* become rows of the tables, all at once; the ids the rows refer to each
\* other by are the places they take.
commit(s, tx) ==
    LET cid == Len(s.collectives) + 1
        uid == IF "user" \in tx.wrote THEN Len(s.users) + 1 ELSE tx.user
        tid == Len(s.guestTokens) + 1
    IN  [s EXCEPT
           !.collectives =
              IF "collective" \in tx.wrote
              THEN Append(@, [newGuestCollective(cid, tx.name, tx.location) EXCEPT
                                !.CreatedByUserId =
                                   IF "CreatedByUserId" \in tx.wrote THEN uid ELSE 0])
              ELSE @,
           !.users =
              IF "user" \in tx.wrote
              THEN Append(@, newGuestUser(uid, tx.email, cid))
              ELSE @,
           !.guestTokens =
              IF "token" \in tx.wrote
              THEN Append(@, newGuestToken(tid, cid, tx.email))
              ELSE @]

\* A variant of rollback that leaves the collective the transaction created.
rollbackKeepingCollective(s, tx) == commit(s, [tx EXCEPT !.wrote = {"collective"}])

\* The rollback of sequelize.transaction when its callback throws: none of
\* the writes made with { transaction } reaches the tables.
rollback(s, tx) == s

\* The Users table admits one row per email.
uniqueEmailViolated(s, email) == findUserByEmail(s, email) # 0


Calls == 1..MaxCalls

\* A call that has not started: it holds nothing.
IdleCall ==
    [pc |-> "idle", emailConfirmationToken |-> NULL, name |-> NULL,
     guestTokensValues |-> NoList, user |-> 0, userCollective |-> 0,
     data |-> [isGuest |-> TRUE], newName |-> NULL, slug |-> <<>>,
     guestTokens |-> {}, result |-> NULL]

\* ------------------------------------------------------------ the actions

\* The last call: its name, the guest token it was given (NULL when none),
\* its result and the collective it returned (0 when none).
Last(op, token, out) ==
    [op |-> op, token |-> token, result |-> out.result, collective |-> out.collective]

ApplyTables(s) ==
    /\ collectives' = s.collectives
    /\ users' = s.users
    /\ guestTokens' = s.guestTokens
    /\ orders' = s.orders
    /\ merges' = s.merges

Apply(s) == ApplyTables(s) /\ UNCHANGED otherVars

Init ==
    /\ collectives = <<>>
    /\ users = <<>>
    /\ guestTokens = <<>>
    /\ orders = <<>>
    /\ merges = <<>>
    /\ last = [op |-> "init", token |-> NULL, result |-> OK, collective |-> 0]
    /\ rateLimits = [key \in RateLimitKeys |-> 0]
    /\ lastMail = [result |-> "init", message |-> NULL, mails |-> <<>>]
    /\ calls = [p \in Calls |-> IdleCall]
    /\ transactions = [p \in Creators |-> IdleTransaction]
    /\ paymentMethods = <<>>
    /\ lastCard = [op |-> "init", result |-> OK, paymentMethod |-> 0,
                   stripeError |-> FALSE, shouldBeSaved |-> NULL]

GetOrCreateGuestProfile ==
    \E email \in EmailInputs, token \in GuestTokenInputs(DB),
       name \in NameInputs, location \in LocationInputs :
       \E out \in {getOrCreateGuestProfile(DB, email, token, name, location)} :
           /\ Len(out.db.collectives) <= MaxAccounts
           /\ Apply(out.db)
           /\ last' = Last("getOrCreateGuestProfile", token, out)

ConfirmGuestAccount ==
    \E ect \in ConfirmationTokenInputs(DB), name \in NameInputs,
       list \in ListInputs(DB) :
       \E out \in {confirmGuestAccount(DB, ect, name, list)} :
           /\ Apply(out.db)
           /\ last' = Last("confirmGuestAccount", NULL, out)

ConfirmGuestAccountMutation ==
    \E ect \in ConfirmationTokenInputs(DB), name \in NameInputs,
       list \in ResolverListInputs(DB) :
       \E out \in {confirmGuestAccountMutation(DB, ect, list, name)} :
           /\ Apply(out.db)
           /\ last' = Last("confirmGuestAccountMutation", NULL, out)

FakeUser ==
    \E email \in Emails, confirmed \in BOOLEAN, withToken \in BOOLEAN :
       /\ Len(collectives) < MaxAccounts
       /\ findUserByEmail(DB, email) = 0
       /\ Apply(fakeUser(DB, email, confirmed, withToken))
       /\ last' = [op |-> "fakeUser", token |-> NULL, result |-> OK,
                   collective |-> Len(collectives) + 1]

FakeOrder ==
    \E cid \in Ids(collectives) :
       /\ Len(orders) < MaxOrders
       /\ LiveCollective(DB, cid)
       /\ Apply(fakeOrder(DB, cid))
       /\ last' = [op |-> "fakeOrder", token |-> NULL, result |-> OK, collective |-> cid]

Next ==
    \/ GetOrCreateGuestProfile
    \/ ConfirmGuestAccount
    \/ ConfirmGuestAccountMutation
    \/ FakeUser
    \/ FakeOrder

Spec == Init /\ [][Next]_vars

\* ------------------------------------- the calls that carry profile details

\* The locations and names a contribution form may carry: none, partly
\* empty ones, and two full values of each field.
ProfileLocations ==
    LocationArgs \cup {[given |-> TRUE, country |-> "US", address |-> "y"],
                       [given |-> TRUE, country |-> NULL, address |-> ""]}

ProfileNames == NameArgs

\* getOrCreateGuestProfile, called with an email "a" or none, any token ever
\* issued or none, and every name and location of the form.
GetOrCreateGuestProfileWithDetails ==
    \E email \in {"a", NULL}, token \in GuestTokenInputs(DB),
       name \in ProfileNames, location \in ProfileLocations :
       \E out \in {getOrCreateGuestProfile(DB, email, token, name, location)} :
           /\ Len(out.db.collectives) <= MaxAccounts
           /\ Apply(out.db)
           /\ last' = Last("getOrCreateGuestProfile", token, out)

NextDetails == GetOrCreateGuestProfileWithDetails

SpecDetails == Init /\ [][NextDetails]_vars

\* -------------------------------- creations running at the same time

ThrowInTransaction(tx, msg) ==
    [IdleTransaction EXCEPT !.pc = "done", !.result = msg, !.email = tx.email]

\* Lines 54-61: the call starts; no email throws before the transaction,
\* else the transaction opens.
BeginCreateGuestProfile(p) ==
    /\ transactions[p].pc \in {"idle", "done"}
    /\ Len(collectives) +
          Cardinality({q \in Creators : transactions[q].pc \notin {"idle", "done"}})
            < MaxAccounts
    /\ \E email \in {"a", "A", NULL}, name \in {NULL}, location \in LocationInputs :
          transactions' = [transactions EXCEPT ![p] =
             IF ~Truthy(email)
             THEN ThrowInTransaction(IdleTransaction, EMAIL_REQUIRED_MSG)
             ELSE [IdleTransaction EXCEPT !.pc = "createCollective", !.email = email,
                                          !.name = name, !.location = location]]
    /\ UNCHANGED <<DBVars, mailVars, calls, cardVars>>

\* Lines 63-73: await models.Collective.create(..., { transaction }).
CreateCollectiveInTransaction(p) ==
    /\ transactions[p].pc = "createCollective"
    /\ transactions' = [transactions EXCEPT ![p].pc = "findUser",
                                            ![p].wrote = @ \cup {"collective"}]
    /\ UNCHANGED <<DBVars, mailVars, calls, cardVars>>

\* Lines 76-90: await models.User.findOne({ where: { email } }) and the
\* tests on the row: a confirmed user throws, and the transaction rolls back.
FindUserInTransaction(p) ==
    /\ transactions[p].pc = "findUser"
    /\ LET tx == transactions[p]
           found == findUserByEmail(DB, tx.email)
       IN  IF found # 0 /\ users[found].confirmedAt
           THEN /\ ApplyTables(rollback(DB, tx))
                /\ transactions' = [transactions EXCEPT ![p] =
                                       ThrowInTransaction(tx, ACCOUNT_EXISTS_MSG)]
           ELSE /\ transactions' = [transactions EXCEPT
                      ![p].user = found,
                      ![p].pc = IF found = 0 THEN "createUser" ELSE "updateCollective"]
                /\ UNCHANGED <<collectives, users, guestTokens, orders, merges>>
    /\ UNCHANGED <<last, mailVars, calls, cardVars>>

\* Lines 78-86: await models.User.create(..., { transaction }).  The insert
\* waits for an open transaction that inserted the same email, and fails,
\* rolling the transaction back, when the email has been committed since.
CreateUserInTransaction(p) ==
    /\ transactions[p].pc = "createUser"
    /\ \A q \in Creators \ {p} :
          ~("user" \in transactions[q].wrote
            /\ transactions[q].email = transactions[p].email)
    /\ LET tx == transactions[p]
       IN  IF uniqueEmailViolated(DB, tx.email)
           THEN /\ ApplyTables(rollback(DB, tx))
                /\ transactions' = [transactions EXCEPT ![p] =
                                       ThrowInTransaction(tx, UNIQUE_EMAIL_MSG)]
           ELSE /\ transactions' = [transactions EXCEPT
                      ![p].pc = "updateCollective",
                      ![p].wrote = @ \cup {"user"}]
                /\ UNCHANGED <<collectives, users, guestTokens, orders, merges>>
    /\ UNCHANGED <<last, mailVars, calls, cardVars>>

\* Line 92: await collective.update({ CreatedByUserId }, { transaction }).
UpdateCreatedByInTransaction(p) ==
    /\ transactions[p].pc = "updateCollective"
    /\ transactions' = [transactions EXCEPT ![p].pc = "createToken",
                                            ![p].wrote = @ \cup {"CreatedByUserId"}]
    /\ UNCHANGED <<DBVars, mailVars, calls, cardVars>>

\* Lines 96-97: await models.GuestToken.create(..., { transaction }).
CreateTokenInTransaction(p) ==
    /\ transactions[p].pc = "createToken"
    /\ transactions' = [transactions EXCEPT ![p].pc = "commit",
                                            ![p].wrote = @ \cup {"token"}]
    /\ UNCHANGED <<DBVars, mailVars, calls, cardVars>>

\* Lines 99-100: the callback returns and the transaction commits.
CommitTransaction(p) ==
    /\ transactions[p].pc = "commit"
    /\ ApplyTables(commit(DB, transactions[p]))
    /\ transactions' = [transactions EXCEPT ![p] =
          [IdleTransaction EXCEPT !.pc = "done", !.result = OK,
                                  !.email = transactions[p].email,
                                  !.collective = Len(collectives) + 1]]
    /\ UNCHANGED <<last, mailVars, calls, cardVars>>

NextCreate ==
    \/ FakeUser
    \/ \E p \in Creators :
          \/ BeginCreateGuestProfile(p)
          \/ CreateCollectiveInTransaction(p)
          \/ FindUserInTransaction(p)
          \/ CreateUserInTransaction(p)
          \/ UpdateCreatedByInTransaction(p)
          \/ CreateTokenInTransaction(p)
          \/ CommitTransaction(p)

SpecCreate == Init /\ [][NextCreate]_vars

\* ------------------------------------------------ the credit cards

LastCard(op, out) ==
    [op |-> op, result |-> out.result, paymentMethod |-> out.paymentMethod,
     stripeError |-> out.stripeError, shouldBeSaved |-> out.shouldBeSaved]

AddCreditCard ==
    \E remoteUser \in Ids(users), account \in Ids(collectives) \cup {0},
       isSavedForLater \in BOOLEAN, info \in CreditCardInfos,
       stripe \in StripeOutcomes :
       \E out \in {addCreditCard(DB, paymentMethods, remoteUser, account, "card",
                                  isSavedForLater, info, stripe)} :
           /\ Len(out.paymentMethods) <= MaxPaymentMethods
           /\ paymentMethods' = out.paymentMethods
           /\ lastCard' = LastCard("addCreditCard", out)
           /\ UNCHANGED <<DBVars, mailVars, calls, transactions>>

ConfirmCreditCard ==
    \E paymentMethod \in 0..Len(paymentMethods), shouldBeSaved \in BOOLEAN :
       \E out \in {confirmCreditCard(paymentMethods, paymentMethod, shouldBeSaved)} :
           /\ paymentMethods' = out.paymentMethods
           /\ lastCard' = LastCard("confirmCreditCard", out)
           /\ UNCHANGED <<DBVars, mailVars, calls, transactions>>

\* The accounts are there before the cards are added, and their users can
\* sign in: they are confirmed and hold no confirmation token.
NextCard ==
    \/ /\ paymentMethods = <<>>
       /\ lastCard.op = "init"
       /\ FakeUser
       /\ \A u \in Ids(users') :
             users'[u].confirmedAt /\ users'[u].emailConfirmationToken = NULL
    \/ AddCreditCard
    \/ ConfirmCreditCard

SpecCard == Init /\ [][NextCard]_vars

\* ---------------------------- two confirmations running at the same time

\* The lists a concurrent call carries: none, or every value issued.
ConcurrentListInputs(s) ==
    {NoList} \cup
    {List(vs, Cardinality(vs)) : vs \in {IssuedGuestTokenValues(s)} \ {{}}}

Throw(call, msg) == [call EXCEPT !.pc = "done", !.result = msg]

\* Lines 180-187: the call starts, models.User.findOne resolves and the two
\* tests run on the row it returned.
FindUser(p) ==
    /\ calls[p].pc = "idle"
    /\ \E ect \in ConfirmationTokenInputs(DB) \ {"InvalidToken"},
          name \in {NULL}, list \in ConcurrentListInputs(DB) :
          LET user == findUserByConfirmationToken(DB, ect)
              call == [calls[p] EXCEPT !.emailConfirmationToken = ect,
                                       !.name = name,
                                       !.guestTokensValues = list,
                                       !.user = user]
          IN  calls' = [calls EXCEPT ![p] =
                 IF user = 0 THEN Throw(call, INVALID_CONFIRMATION_MSG)
                 ELSE IF isAlreadyVerified(users[user])
                 THEN Throw(call, ALREADY_VERIFIED_MSG)
                 ELSE [call EXCEPT !.pc = "updateUser"]]
    /\ UNCHANGED <<DBVars, mailVars, transactions, cardVars>>

\* Line 189: await user.update({ emailConfirmationToken: null, confirmedAt }).
UpdateUser(p) ==
    /\ calls[p].pc = "updateUser"
    /\ users' = [users EXCEPT ![calls[p].user] = confirmedUser(@)]
    /\ calls' = [calls EXCEPT ![p].pc = "getCollective"]
    /\ UNCHANGED <<collectives, guestTokens, orders, merges, last, mailVars, transactions, cardVars>>

\* Lines 192-193: await user.getCollective(), then newName from the row
\* returned (null when the collective is deleted).
GetCollective(p) ==
    /\ calls[p].pc = "getCollective"
    /\ LET cid == users[calls[p].user].CollectiveId
       IN  calls' = [calls EXCEPT ![p] =
              IF ~LiveCollective(DB, cid)
              THEN Throw(@, TYPE_ERROR)
              ELSE [@ EXCEPT !.pc = "generateSlug",
                             !.userCollective = cid,
                             !.data = collectives[cid].data,
                             !.newName = newName(collectives[cid], calls[p].name)]]
    /\ UNCHANGED <<DBVars, mailVars, transactions, cardVars>>

\* Line 196: await models.Collective.generateSlug([newName]).
GenerateSlug(p) ==
    /\ calls[p].pc = "generateSlug"
    /\ calls' = [calls EXCEPT ![p].pc = "updateCollective",
                              ![p].slug = generateSlug(DB, calls[p].newName)]
    /\ UNCHANGED <<DBVars, mailVars, transactions, cardVars>>

\* Lines 194-203: await userCollective.update({ name, slug, data }), then
\* the test of guestTokensValues?.length.
UpdateCollective(p) ==
    /\ calls[p].pc = "updateCollective"
    /\ collectives' = [collectives EXCEPT ![calls[p].userCollective] =
          [@ EXCEPT !.name = calls[p].newName,
                    !.slug = calls[p].slug,
                    !.data = spreadIsGuestFalse(calls[p].data)]]
    /\ calls' = [calls EXCEPT ![p].pc =
          IF calls[p].guestTokensValues.given /\ calls[p].guestTokensValues.length > 0
          THEN "findAll" ELSE "destroy"]
    /\ UNCHANGED <<users, guestTokens, orders, merges, last, mailVars, transactions, cardVars>>

\* Lines 204-218: await models.GuestToken.findAll, then the test of
\* guestTokens.length.
FindAllGuestTokens(p) ==
    /\ calls[p].pc = "findAll"
    /\ LET found == findLinkedGuestTokens(DB, calls[p].guestTokensValues.values,
                                          calls[p].userCollective)
       IN  calls' = [calls EXCEPT ![p].guestTokens = found,
                                  ![p].pc = IF found # {} THEN "merge" ELSE "destroy"]
    /\ UNCHANGED <<DBVars, mailVars, transactions, cardVars>>

\* Lines 219-220: await Promise.all(guestTokens.map(mergeCollectives)).
MergeLinked(p) ==
    /\ calls[p].pc = "merge"
    /\ \E s \in {mergeAll(DB, calls[p].guestTokens, calls[p].userCollective)} :
          /\ collectives' = s.collectives
          /\ orders' = s.orders
          /\ merges' = s.merges
    /\ calls' = [calls EXCEPT ![p].pc = "destroy"]
    /\ UNCHANGED <<users, guestTokens, last, mailVars, transactions, cardVars>>

\* Lines 225-229: await models.GuestToken.destroy, then the return.
DestroyGuestTokens(p) ==
    /\ calls[p].pc = "destroy"
    /\ guestTokens' = destroyGuestTokens(DB,
          allCollectiveIds(DB, calls[p].userCollective, calls[p].guestTokens)).guestTokens
    /\ calls' = [calls EXCEPT ![p].pc = "done", ![p].result = OK]
    /\ UNCHANGED <<collectives, users, orders, merges, last, mailVars, transactions, cardVars>>

\* The guest profiles are created before the confirmations start.
NextConcurrent ==
    \/ (\A p \in Calls : calls[p].pc = "idle") /\ GetOrCreateGuestProfile
    \/ \E p \in Calls :
          \/ FindUser(p)
          \/ UpdateUser(p)
          \/ GetCollective(p)
          \/ GenerateSlug(p)
          \/ UpdateCollective(p)
          \/ FindAllGuestTokens(p)
          \/ MergeLinked(p)
          \/ DestroyGuestTokens(p)

SpecConcurrent == Init /\ [][NextConcurrent]_vars

\* ----------------------------------------------- the confirmation emails

SendGuestConfirmationEmail ==
    \E remoteUser \in {0} \cup Ids(users), ip \in IPs, email \in MailEmails :
       \E out \in {sendGuestConfirmationEmail(DB, rateLimits, remoteUser, ip, email)} :
           /\ rateLimits' = out.rateLimits
           /\ lastMail' = [result |-> out.result, message |-> out.message,
                           mails |-> out.mails]
           /\ UNCHANGED <<calls, transactions, cardVars, DBVars>>

\* The 60 seconds of a key's window have passed: its counter is gone.
WindowElapses ==
    \E key \in RateLimitKeys :
       /\ rateLimits[key] > 0
       /\ rateLimits' = [rateLimits EXCEPT ![key] = 0]
       /\ UNCHANGED <<lastMail, calls, transactions, cardVars, DBVars>>

\* mergeCollectives(from, into), as the platform's administrators run it on
\* two live accounts.
MergeCollectives ==
    \E from \in Ids(collectives), into \in Ids(collectives) :
       /\ from # into
       /\ LiveCollective(DB, from)
       /\ LiveCollective(DB, into)
       /\ Apply(mergeCollectives(DB, from, into))
       /\ last' = [op |-> "mergeCollectives", token |-> NULL, result |-> OK,
                   collective |-> into]

NextMail ==
    \/ FakeUser
    \/ MergeCollectives
    \/ SendGuestConfirmationEmail
    \/ WindowElapses

SpecMail == Init /\ [][NextMail]_vars

\* ---------------------------------------------------------- the properties

\* The users that have an email.
UsersOfEmail(email) == {u \in Ids(users) : users[u].email = email}

\* The users a guest token value leads to: the users whose profile owns a
\* live token of that value.
OwnersOfToken(value) ==
    {u \in Ids(users) :
       \E t \in Ids(guestTokens) :
          /\ guestTokens[t].value = value
          /\ ~guestTokens[t].deletedAt
          /\ users[u].CollectiveId = guestTokens[t].CollectiveId
          /\ ~collectives[guestTokens[t].CollectiveId].deletedAt}

\* after is before with exactly one row added.
OneRowAdded(before, after) ==
    Len(after) = Len(before) + 1 /\ SubSeq(after, 1, Len(before)) = before

\* C1: for every email E that no User has, getOrCreateGuestProfile({email: E})
\* with no token succeeds and adds exactly one Account (type person, isGuest
\* true), exactly one unconfirmed User whose email is E and whose account is
\* the new Account, and exactly one GuestToken of the new Account; the call
\* returns these three rows.
C1_FreshEmailCreatesProfile ==
    \A email \in Emails, token \in {NULL, ""}, name \in NameArgs,
       location \in LocationArgs :
       UsersOfEmail(email) = {} =>
         \A out \in {getOrCreateGuestProfile(DB, email, token, name, location)} :
            /\ out.result = OK
            /\ OneRowAdded(collectives, out.db.collectives)
            /\ OneRowAdded(users, out.db.users)
            /\ OneRowAdded(guestTokens, out.db.guestTokens)
            /\ out.db.orders = orders
            /\ out.collective = Len(collectives) + 1
            /\ out.user = Len(users) + 1
            /\ out.token = Len(guestTokens) + 1
            /\ out.db.collectives[out.collective].type = COLLECTIVE_TYPE_USER
            /\ out.db.collectives[out.collective].data = [isGuest |-> TRUE]
            /\ ~out.db.collectives[out.collective].deletedAt
            /\ out.db.users[out.user].email = email
            /\ ~out.db.users[out.user].confirmedAt
            /\ out.db.users[out.user].CollectiveId = out.collective
            /\ out.db.guestTokens[out.token].CollectiveId = out.collective
            /\ ~out.db.guestTokens[out.token].deletedAt

\* A call without a token has just created the newest profile together with
\* the newest user.
C1_Witness ==
    /\ last.op = "getOrCreateGuestProfile"
    /\ last.token = NULL
    /\ last.result = OK
    /\ last.collective = Len(collectives)
    /\ users[Len(users)].CollectiveId = last.collective
    /\ collectives[last.collective].CreatedByUserId = Len(users)
    /\ guestTokens[Len(guestTokens)].CollectiveId = last.collective

\* C2 as stated: when an unconfirmed User has the email E,
\* getOrCreateGuestProfile({email: E}) with no token returns the Account of
\* that User and the number of Accounts stays what it was.
C2_ReusesAccountOfUnconfirmedUser ==
    \A email \in Emails, token \in {NULL, ""}, name \in NameArgs,
       location \in LocationArgs :
       \A u \in UsersOfEmail(email) :
          ~users[u].confirmedAt =>
            \A out \in {getOrCreateGuestProfile(DB, email, token, name, location)} :
               /\ out.result = OK
               /\ out.collective = users[u].CollectiveId
               /\ Len(out.db.collectives) = Len(collectives)

\* C2 amended: when an unconfirmed User has the email E,
\* getOrCreateGuestProfile({email: E}) with no token returns a newly created
\* guest Account, not the one of that User, whose creator is that User; it
\* creates no User and leaves that User as it was, and adds one GuestToken of
\* the new Account: the number of Accounts grows by exactly one.
C2_NewProfileForUnconfirmedUser ==
    \A email \in Emails, token \in {NULL, ""}, name \in NameArgs,
       location \in LocationArgs :
       \A u \in UsersOfEmail(email) :
          ~users[u].confirmedAt =>
            \A out \in {getOrCreateGuestProfile(DB, email, token, name, location)} :
               /\ out.result = OK
               /\ OneRowAdded(collectives, out.db.collectives)
               /\ out.collective = Len(collectives) + 1
               /\ out.collective # users[u].CollectiveId
               /\ out.db.collectives[out.collective].CreatedByUserId = u
               /\ out.db.collectives[out.collective].data = [isGuest |-> TRUE]
               /\ out.user = u
               /\ out.db.users = users
               /\ OneRowAdded(guestTokens, out.db.guestTokens)
               /\ out.db.guestTokens[out.token].CollectiveId = out.collective

\* A call without a token has just created a second profile for an
\* unconfirmed user that has another one.
C2_Witness ==
    /\ last.op = "getOrCreateGuestProfile"
    /\ last.token = NULL
    /\ last.result = OK
    /\ last.collective = Len(collectives)
    /\ \E u \in Ids(users) :
          /\ collectives[last.collective].CreatedByUserId = u
          /\ users[u].CollectiveId # last.collective
          /\ ~users[u].confirmedAt

\* C3 as stated: whenever a confirmed User has the email E, every call
\* getOrCreateGuestProfile({email: E, token: T}) fails with the 'An account
\* already exists for this email, please sign in' error, whatever T is, and
\* leaves the database as it was.
C3_ConfirmedEmailAlwaysAccountExists ==
    \A email \in Emails, token \in GuestTokenArgs(DB), name \in NameArgs,
       location \in LocationArgs :
       (\E u \in UsersOfEmail(email) : users[u].confirmedAt) =>
         \A out \in {getOrCreateGuestProfile(DB, email, token, name, location)} :
            out.result = ACCOUNT_EXISTS_MSG /\ out.db = DB

\* C3 amended: whenever a confirmed User has the email E, the call
\* getOrCreateGuestProfile({email: E, token: T}) fails with the 'An account
\* already exists' error when T is absent and when T is a live token of an
\* account whose User is confirmed or has an email other than E trimmed; it
\* fails with the 'Your guest token is invalid' error when T is no live token
\* of an account that has a User; in each of these cases the database is left
\* as it was.
C3_ConfirmedEmailFails ==
    \A email \in Emails, token \in GuestTokenArgs(DB), name \in NameArgs,
       location \in LocationArgs :
       (\E u \in UsersOfEmail(email) : users[u].confirmedAt) =>
         \A out \in {getOrCreateGuestProfile(DB, email, token, name, location)} :
            /\ ~Truthy(token) =>
                 out.result = ACCOUNT_EXISTS_MSG /\ out.db = DB
            /\ Truthy(token) /\ OwnersOfToken(token) = {} =>
                 out.result = INVALID_TOKEN_MSG /\ out.db = DB
            /\ \A o \in OwnersOfToken(token) :
                 Truthy(token) /\ (users[o].confirmedAt \/ users[o].email # trim(email)) =>
                   out.result = ACCOUNT_EXISTS_MSG /\ out.db = DB

\* A call with the live token of a guest has just failed with the 'An account
\* already exists' error: the email it carried is a confirmed user's.
C3_Witness ==
    /\ last.op = "getOrCreateGuestProfile"
    /\ last.result = ACCOUNT_EXISTS_MSG
    /\ OwnersOfToken(last.token) # {}
    /\ \E u \in Ids(users) : users[u].confirmedAt

\* C4, for the emails that carry no surrounding blank: while no User is
\* confirmed, for every GuestToken value T an earlier getOrCreateGuestProfile
\* call for email E returned (also a call made when an unconfirmed User of E
\* existed), getOrCreateGuestProfile({token: T}) and ({token: T, email: E})
\* succeed, return the Account returned with T and create no Account, User or
\* GuestToken; the same call repeated returns the same Account.
C4_IssuedTokenResumesItsProfile ==
    (\A u \in Ids(users) : ~users[u].confirmedAt) =>
      \A t \in Ids(guestTokens), name \in NameArgs, location \in LocationArgs :
         trim(guestTokens[t].issuedFor) = guestTokens[t].issuedFor =>
           \A email \in {NULL, guestTokens[t].issuedFor} :
              \A out \in {getOrCreateGuestProfile(DB, email, guestTokens[t].value,
                                                  name, location)} :
                 /\ out.result = OK
                 /\ out.collective = guestTokens[t].CollectiveId
                 /\ Len(out.db.collectives) = Len(collectives)
                 /\ Len(out.db.users) = Len(users)
                 /\ Len(out.db.guestTokens) = Len(guestTokens)
                 /\ getOrCreateGuestProfile(out.db, email, guestTokens[t].value,
                                            name, location).collective
                      = guestTokens[t].CollectiveId

\* The live tokens with their unconfirmed owners: the guests that may resume.
LiveGuests ==
    {<<t, u>> \in Ids(guestTokens) \X Ids(users) :
       /\ ~guestTokens[t].deletedAt
       /\ ~collectives[guestTokens[t].CollectiveId].deletedAt
       /\ users[u].CollectiveId = guestTokens[t].CollectiveId
       /\ ~users[u].confirmedAt}

\* What C5 says of a call with the token of guest g and the email:
\* a new Account and a new GuestToken come back, and the guest's own Account,
\* User and token are as they were and the token still resumes its profile.
NewProfileBesideGuest(g, email, name, location) ==
    LET t == g[1]
        u == g[2]
        c == guestTokens[t].CollectiveId
    IN  \A out \in {getOrCreateGuestProfile(DB, email, guestTokens[t].value,
                                            name, location)} :
           /\ out.result = OK
           /\ OneRowAdded(collectives, out.db.collectives)
           /\ out.collective = Len(collectives) + 1
           /\ out.collective # c
           /\ OneRowAdded(guestTokens, out.db.guestTokens)
           /\ out.token = Len(guestTokens) + 1
           /\ out.db.guestTokens[out.token].value # guestTokens[t].value
           /\ out.db.guestTokens[out.token].CollectiveId = out.collective
           /\ out.db.collectives[c] = collectives[c]
           /\ out.db.users[u] = users[u]
           /\ out.db.guestTokens[t] = guestTokens[t]
           /\ \A again \in {getOrCreateGuestProfile(out.db, NULL, guestTokens[t].value,
                                                    NULL, NoLocation)} :
                 again.result = OK /\ again.collective = c

\* C5 as stated: a call with a live token T of an unconfirmed guest and an
\* email E2 different from the email of T's User (and no confirmed User's
\* email) returns a newly created Account, not the one owning T, with a new
\* GuestToken; T's Account, User and token are unchanged and T stays usable.
C5_DifferentEmailCreatesProfile ==
    \A g \in LiveGuests, email \in Emails, name \in NameArgs,
       location \in LocationArgs :
       (/\ email # users[g[2]].email
        /\ \A v \in UsersOfEmail(email) : ~users[v].confirmedAt) =>
         NewProfileBesideGuest(g, email, name, location)

\* C5 amended: the same, for an email E2 that differs from the email of T's
\* User also after E2 is trimmed.
C5_DifferentTrimmedEmailCreatesProfile ==
    \A g \in LiveGuests, email \in Emails, name \in NameArgs,
       location \in LocationArgs :
       (/\ email # users[g[2]].email
        /\ trim(email) # users[g[2]].email
        /\ \A v \in UsersOfEmail(email) : ~users[v].confirmedAt) =>
         NewProfileBesideGuest(g, email, name, location)

\* A call with the live token of an unconfirmed guest has just returned a
\* new profile, not the token's.
C5_Witness ==
    /\ last.op = "getOrCreateGuestProfile"
    /\ last.result = OK
    /\ last.collective = Len(collectives)
    /\ \E g \in LiveGuests :
          /\ guestTokens[g[1]].value = last.token
          /\ guestTokens[g[1]].CollectiveId # last.collective
          /\ collectives[last.collective].CreatedByUserId # g[2]

\* The Accounts a list of link tokens names for a confirmation: those that
\* own a live token whose value is in the list, are guest-flagged and are not
\* the confirmed Account.
LinkedAccounts(list, confirmedId) ==
    {c \in Ids(collectives) :
       /\ c # confirmedId
       /\ "isGuest" \in DOMAIN collectives[c].data
       /\ collectives[c].data["isGuest"]
       /\ \E t \in Ids(guestTokens) :
             /\ guestTokens[t].CollectiveId = c
             /\ ~guestTokens[t].deletedAt
             /\ guestTokens[t].value \in list.values}

\* The merges a call made: the entries it added to the history.
NewMerges(db) == {i \in Len(merges) + 1 .. Len(db.merges) : TRUE}

\* C6: after confirmGuestAccount(confirmationToken, name, linkTokens)
\* completes, every Account that owns a live GuestToken whose value is in
\* linkTokens, is guest-flagged and is not the confirmed Account has been
\* merged into the confirmed Account exactly once (its orders and transactions
\* are the confirmed Account's) and is soft-deleted; the confirmed Account is
\* not deleted; no live GuestToken is left to the confirmed Account or to a
\* merged one.  Values that resolve to nothing are ignored: they change
\* neither the result nor the database the call leaves.
C6_LinkedProfilesMerged ==
    \A ect \in ConfirmationTokenInputs(DB), name \in NameInputs,
       list \in ListArgs(DB) :
       \A out \in {confirmGuestAccount(DB, ect, name, list)},
          plain \in {confirmGuestAccount(DB, ect, name, NoList)} :
          /\ out.result = plain.result
          /\ out.result = OK =>
               /\ \E u \in Ids(users) :
                     /\ users[u].emailConfirmationToken = ect
                     /\ users[u].CollectiveId = out.collective
               /\ ~out.db.collectives[out.collective].deletedAt
               /\ \A c \in LinkedAccounts(list, out.collective) :
                     /\ Cardinality({i \in NewMerges(out.db) :
                                       out.db.merges[i][1] = c}) = 1
                     /\ \A i \in NewMerges(out.db) :
                           out.db.merges[i][1] = c =>
                             out.db.merges[i][2] = out.collective
                     /\ out.db.collectives[c].deletedAt
                     /\ \A o \in Ids(orders) :
                           orders[o].FromCollectiveId = c =>
                             /\ out.db.orders[o].FromCollectiveId = out.collective
                             /\ out.db.orders[o].TransactionsCollectiveId = out.collective
               /\ \A t \in Ids(out.db.guestTokens) :
                     out.db.guestTokens[t].CollectiveId
                        \in LinkedAccounts(list, out.collective) \cup {out.collective}
                     => out.db.guestTokens[t].deletedAt
               /\ LinkedAccounts(list, out.collective) = {} => out.db = plain.db

\* A confirmation has just merged a guest profile that had an order: the
\* profile is deleted, its token too, and the order is the confirmed
\* Account's.
C6_Witness ==
    /\ last.op = "confirmGuestAccount"
    /\ last.result = OK
    /\ \E i \in Ids(merges), o \in Ids(orders), t \in Ids(guestTokens) :
          /\ merges[i][2] = last.collective
          /\ collectives[merges[i][1]].deletedAt
          /\ ~collectives[last.collective].deletedAt
          /\ guestTokens[t].CollectiveId = merges[i][1]
          /\ guestTokens[t].deletedAt
          /\ orders[o].FromCollectiveId = last.collective
          /\ collectives[last.collective].CreatedByUserId # 0

\* C7: with the confirmation token of an unconfirmed User and a guestTokens
\* list of at most 30 values, the confirmGuestAccount mutation leaves the
\* database that confirmGuestAccount(emailConfirmationToken, name,
\* guestTokens) leaves: the profiles the list resolves are merged into the
\* confirmed Account and their tokens deleted.
C7_MutationLinksGuestTokens ==
    \A ect \in ConfirmationTokenInputs(DB), name \in NameInputs,
       list \in ListArgs(DB) :
       (/\ list.length <= MaxLinkedProfiles
        /\ \E u \in Ids(users) :
              users[u].emailConfirmationToken = ect /\ ~users[u].confirmedAt) =>
         confirmGuestAccountMutation(DB, ect, list, name).db
           = confirmGuestAccount(DB, ect, name, list).db

\* C8: confirmGuestAccount fails with 'Invalid email confirmation token' when
\* no User has the confirmation token and with 'This account has already been
\* verified' when the User that has it is confirmed; either way it leaves the
\* database as it was: no User, Account or GuestToken changed, no merge.
C8_ConfirmationErrors ==
    \A ect \in ConfirmationTokenInputs(DB), name \in NameArgs,
       list \in ListInputs(DB) :
       \A out \in {confirmGuestAccount(DB, ect, name, list)} :
          /\ (\A u \in Ids(users) : users[u].emailConfirmationToken # ect) =>
               out.result = INVALID_CONFIRMATION_MSG /\ out.db = DB
          /\ (\E u \in Ids(users) :
                users[u].emailConfirmationToken = ect /\ users[u].confirmedAt) =>
               out.result = ALREADY_VERIFIED_MSG /\ out.db = DB

\* confirmGuestAccount has just refused the confirmation token of a confirmed
\* user.
C8_Witness ==
    /\ last.op = "confirmGuestAccount"
    /\ last.result = ALREADY_VERIFIED_MSG
    /\ \E u \in Ids(users) :
          users[u].confirmedAt /\ users[u].emailConfirmationToken # NULL

\* C9: after a successful confirmGuestAccount(token, name) the User has a
\* confirmation timestamp and no confirmation token; its Account has
\* isGuest = false and every other metadata key as before; the Account's name
\* is the supplied name when one is given, otherwise 'Incognito' when the
\* stored name is 'Guest', otherwise the stored name; the slug is generated
\* from that name.
C9_ConfirmedProfile ==
    \A ect \in ConfirmationTokenInputs(DB), name \in NameArgs,
       list \in ListInputs(DB) :
       \A out \in {confirmGuestAccount(DB, ect, name, list)} :
          out.result = OK =>
            \A u \in Ids(users) :
               users[u].emailConfirmationToken = ect =>
                 LET before == collectives[users[u].CollectiveId]
                     after == out.db.collectives[users[u].CollectiveId]
                     final == IF name # NULL THEN name
                              ELSE IF before.name = "Guest" THEN "Incognito"
                              ELSE before.name
                 IN  /\ out.db.users[u].confirmedAt
                     /\ out.db.users[u].emailConfirmationToken = NULL
                     /\ DOMAIN after.data = DOMAIN before.data \cup {"isGuest"}
                     /\ after.data["isGuest"] = FALSE
                     /\ \A k \in DOMAIN before.data \ {"isGuest"} :
                           after.data[k] = before.data[k]
                     /\ after.name = final
                     /\ after.slug[1] = slugify(final)

\* confirmGuestAccount has just confirmed a guest whose profile had the
\* default name.
C9_Witness ==
    /\ last.op = "confirmGuestAccount"
    /\ last.result = OK
    /\ collectives[last.collective].name = "Incognito"
    /\ collectives[last.collective].data = [isGuest |-> FALSE]
    /\ \E u \in Ids(users) :
          /\ users[u].CollectiveId = last.collective
          /\ users[u].confirmedAt
          /\ users[u].emailConfirmationToken = NULL

\* C10 as stated: a confirmation that carries more than 30 link-token values
\* fails and changes nothing, through the mutation and through
\* confirmGuestAccount alike.
C10_TooManyLinkTokensFailEverywhere ==
    \A ect \in ConfirmationTokenInputs(DB), name \in NameInputs,
       list \in ListArgs(DB) :
       list.length > MaxLinkedProfiles =>
         \A viaMutation \in {confirmGuestAccountMutation(DB, ect, list, name)},
            viaLibrary \in {confirmGuestAccount(DB, ect, name, list)} :
            /\ viaMutation.result # OK
            /\ viaMutation.db = DB
            /\ viaLibrary.result # OK
            /\ viaLibrary.db = DB

\* C10 amended: the confirmGuestAccount mutation, given more than 30
\* guestTokens values, fails with 'Cannot link more than 30 profiles at the
\* same time' before any store read or write: the database is as it was.
\* (confirmGuestAccount itself sets no limit.)
C10_MutationRejectsTooManyLinkTokens ==
    \A ect \in ConfirmationTokenInputs(DB), name \in NameArgs,
       list \in ListArgs(DB) :
       list.length > MaxLinkedProfiles =>
         \A out \in {confirmGuestAccountMutation(DB, ect, list, name)} :
            out.result = TOO_MANY_PROFILES_MSG /\ out.db = DB

\* The mutation has just refused a list of more than 30 values while an
\* unconfirmed user holds a confirmation token.
C10_Witness ==
    /\ last.op = "confirmGuestAccountMutation"
    /\ last.result = TOO_MANY_PROFILES_MSG
    /\ \E u \in Ids(users) :
          ~users[u].confirmedAt /\ users[u].emailConfirmationToken # NULL

\* C15 as stated: on the token path the supplied email is compared with the
\* email of the token's User without regard to letter case and after
\* trimming: a call with the live token of an unconfirmed guest and an email
\* that equals the stored one up to case and surrounding blanks returns the
\* token's Account and creates no profile, and a call that creates a profile
\* carried an email that differs also after this normalization.  (Stated for
\* the Users whose stored email has no surrounding blanks.)
C15_EmailComparedIgnoringCaseAndBlanks ==
    \A g \in LiveGuests, email \in Emails, name \in NameInputs,
       location \in LocationInputs :
       LET same == toLowerCase(trim(email)) = toLowerCase(users[g[2]].email)
       IN  trim(users[g[2]].email) = users[g[2]].email =>
           \A out \in {getOrCreateGuestProfile(DB, email, guestTokens[g[1]].value,
                                               name, location)} :
              /\ same => /\ out.result = OK
                         /\ out.collective = guestTokens[g[1]].CollectiveId
                         /\ Len(out.db.collectives) = Len(collectives)
              /\ Len(out.db.collectives) > Len(collectives) => ~same

\* What a resuming call may do to one field: it holds the supplied value
\* when that value is non-empty and differs from the stored one, and the
\* stored value otherwise.
FieldAfter(stored, given, supplied, after) ==
    IF given /\ supplied \notin {NULL, ""} /\ supplied # stored
    THEN after = supplied
    ELSE after = stored

\* C16: a call that resumes a profile through its token (no email, or the
\* email of the token's User) succeeds, returns that profile, and overwrites
\* each of name, country and address only with a supplied value that is
\* non-empty and differs from the stored one; a missing, null or empty value
\* changes nothing; when nothing differs no field is written; every other
\* field of the Account, every other Account, the Users, the GuestTokens and
\* the Orders are as they were.
C16_ResumeUpdatesOnlyGivenDetails ==
    \A g \in LiveGuests, name \in ProfileNames, location \in ProfileLocations :
    \A email \in {NULL, "", users[g[2]].email} :
       LET c == guestTokens[g[1]].CollectiveId
           stored == collectives[c]
           nothingDiffers ==
              /\ name \in {NULL, "", stored.name}
              /\ ~location.given \/ location.country \in {NULL, "", stored.countryISO}
              /\ ~location.given \/ location.address \in {NULL, "", stored.address}
       IN  trim(users[g[2]].email) = users[g[2]].email =>
           \A out \in {getOrCreateGuestProfile(DB, email, guestTokens[g[1]].value,
                                               name, location)} :
              /\ out.result = OK
              /\ out.collective = c /\ out.user = g[2] /\ out.token = g[1]
              /\ FieldAfter(stored.name, TRUE, name, out.db.collectives[c].name)
              /\ FieldAfter(stored.countryISO, location.given, location.country,
                            out.db.collectives[c].countryISO)
              /\ FieldAfter(stored.address, location.given, location.address,
                            out.db.collectives[c].address)
              /\ nothingDiffers => /\ fieldsToUpdate(stored, name, location) = {}
                                   /\ out.db = DB
              /\ out.db.collectives[c] =
                    [stored EXCEPT !.name = out.db.collectives[c].name,
                                   !.countryISO = out.db.collectives[c].countryISO,
                                   !.address = out.db.collectives[c].address]
              /\ \A d \in Ids(collectives) \ {c} :
                    out.db.collectives[d] = collectives[d]
              /\ Len(out.db.collectives) = Len(collectives)
              /\ out.db.users = users
              /\ out.db.guestTokens = guestTokens
              /\ out.db.orders = orders

\* A call with the token of a profile that holds a name, a country and an
\* address has just resumed it, and another is stored beside it, so that
\* supplied values meet stored ones that equal them and ones that differ.
C16_Witness ==
    /\ last.op = "getOrCreateGuestProfile"
    /\ last.result = OK
    /\ last.token # NULL
    /\ \E g \in LiveGuests :
          /\ guestTokens[g[1]].value = last.token
          /\ guestTokens[g[1]].CollectiveId = last.collective
          /\ collectives[last.collective].name = "Joe"
          /\ collectives[last.collective].countryISO = "US"
          /\ collectives[last.collective].address = "x"

\* C11: sendGuestConfirmationEmail by a caller who is not signed in, from an
\* IP that made Nip counted calls in the running window, fails with
\* RateLimitExceeded (the IP's message) and leaves every counter, the email's
\* too, as it was; from an IP below its quota, for a normalized email that
\* had Nemail counted calls in the running window, it fails with
\* RateLimitExceeded (the email's message); both whatever User the email has.
\* Below both quotas (as in a new window) the call is counted once for the IP
\* and once for the normalized email, and is not rate limited.
C11_RateLimits ==
    \A ip \in IPs, email \in MailEmails :
       \A out \in {sendGuestConfirmationEmail(DB, rateLimits, 0, ip, email)} :
          LET ipCalls == rateLimits[ipKey(ip)]
              emailCalls == rateLimits[emailKey(toLowerCase(trim(email)))]
          IN  /\ ipCalls >= confirmGuestEmailPerMinutePerIp =>
                   /\ out.result = RateLimitExceeded
                   /\ out.message = RATE_LIMIT_IP_MSG
                   /\ out.rateLimits = rateLimits
                   /\ out.mails = <<>>
              /\ (/\ ipCalls < confirmGuestEmailPerMinutePerIp
                  /\ emailCalls >= confirmGuestEmailPerMinute) =>
                   /\ out.result = RateLimitExceeded
                   /\ out.message = RATE_LIMIT_EMAIL_MSG
                   /\ out.rateLimits[emailKey(toLowerCase(trim(email)))] = emailCalls
                   /\ out.mails = <<>>
              /\ (/\ ipCalls < confirmGuestEmailPerMinutePerIp
                  /\ emailCalls < confirmGuestEmailPerMinute) =>
                   /\ out.result # RateLimitExceeded
                   /\ out.rateLimits =
                        [rateLimits EXCEPT
                           ![ipKey(ip)] = ipCalls + 1,
                           ![emailKey(toLowerCase(trim(email)))] = emailCalls + 1]

\* A call has just been refused by the limit of its IP, which made its Nip
\* calls in the window, while the quota of the email "a" is unused and an
\* unconfirmed User waits for that email.
C11_Witness ==
    /\ lastMail.result = RateLimitExceeded
    /\ lastMail.message = RATE_LIMIT_IP_MSG
    /\ \E ip \in IPs : rateLimits[ipKey(ip)] = confirmGuestEmailPerMinutePerIp
    /\ rateLimits[emailKey("a")] = 0
    /\ \E u \in Ids(users) :
          /\ users[u].email = "a"
          /\ ~users[u].confirmedAt
          /\ LiveCollective(DB, users[u].CollectiveId)

\* What C12 says of a call, where `found` is the User the call is to find
\* for the normalized email (0 when none): a signed-in caller is refused
\* with BadRequest and no counter moves; a caller within both quotas gets
\* NotFound when no User is found, BadRequest when the User is confirmed, and
\* else true with exactly one email, sent to the User and carrying the
\* User's confirmation token; every refused call sends nothing.
SendsOnlyToUnconfirmed(remoteUser, ip, email, found) ==
    \A out \in {sendGuestConfirmationEmail(DB, rateLimits, remoteUser, ip, email)} :
       LET withinQuotas ==
              /\ rateLimits[ipKey(ip)] < confirmGuestEmailPerMinutePerIp
              /\ rateLimits[emailKey(toLowerCase(trim(email)))]
                    < confirmGuestEmailPerMinute
       IN  /\ remoteUser # 0 =>
                /\ out.result = BadRequest
                /\ out.message = SIGNED_IN_MSG
                /\ out.rateLimits = rateLimits
           /\ (remoteUser = 0 /\ withinQuotas /\ found = 0) =>
                out.result = NotFound
           /\ (remoteUser = 0 /\ withinQuotas /\ found # 0) =>
                IF users[found].confirmedAt
                THEN /\ out.result = BadRequest
                     /\ out.message = ALREADY_CONFIRMED_MSG
                ELSE /\ out.result = OK
                     /\ Len(out.mails) = 1
                     /\ out.mails[1].to = users[found].email
                     /\ out.mails[1].verifyAccountLink[2]
                          = users[found].emailConfirmationToken
           /\ out.result # OK => out.mails = <<>>
           /\ out.mails # <<>> => remoteUser = 0 /\ withinQuotas /\ found # 0

\* C12 as stated: the User the call is to find is the User whose email is
\* the normalized email.
C12_SendsWhenUserExists ==
    \A remoteUser \in {0} \cup Ids(users), ip \in IPs, email \in MailEmails :
       SendsOnlyToUnconfirmed(remoteUser, ip, email,
                              First(UsersOfEmail(toLowerCase(trim(email)))))

\* C12 amended: the User the call is to find is the User whose email is the
\* normalized email and whose Account is not deleted.
C12_SendsWhenUserWithAccountExists ==
    \A remoteUser \in {0} \cup Ids(users), ip \in IPs, email \in MailEmails :
       SendsOnlyToUnconfirmed(remoteUser, ip, email,
          First({u \in UsersOfEmail(toLowerCase(trim(email))) :
                   ~collectives[users[u].CollectiveId].deletedAt}))

\* A call has just sent one email to the unconfirmed User of "a", with the
\* User's confirmation token, while another User's Account is deleted.
C12_Witness ==
    /\ lastMail.result = OK
    /\ Len(lastMail.mails) = 1
    /\ lastMail.mails[1].to = "a"
    /\ lastMail.mails[1].verifyAccountLink[2] # NULL
    /\ \E u \in Ids(users) :
          /\ users[u].email = "a"
          /\ ~users[u].confirmedAt
          /\ users[u].emailConfirmationToken = lastMail.mails[1].verifyAccountLink[2]
    /\ \E c \in Ids(collectives) : collectives[c].deletedAt

\* A call that passed the two tests of its User: it is under way or has
\* returned, and it did not throw at the tests.
PassedConfirmedCheck(p) ==
    /\ calls[p].pc # "idle"
    /\ calls[p].result \notin {INVALID_CONFIRMATION_MSG, ALREADY_VERIFIED_MSG}

\* C13 as stated: of two confirmGuestAccount calls that carry the same
\* email-confirmation token, however their steps interleave, a call that is
\* past its User update (at the merge, before or after it) has the User
\* confirmed with the token cleared; at most one of the two passes the
\* confirmed check; and when both have ended, one of them failed with the
\* already-verified error.
C13_ConfirmedExactlyOnce ==
    /\ \A p \in Calls :
          calls[p].pc \in {"getCollective", "generateSlug", "updateCollective",
                           "findAll", "merge", "destroy"} =>
             /\ users[calls[p].user].confirmedAt
             /\ users[calls[p].user].emailConfirmationToken = NULL
    /\ \A p \in Calls, q \in Calls :
          (/\ p # q
           /\ calls[p].pc # "idle"
           /\ calls[q].pc # "idle"
           /\ calls[p].emailConfirmationToken = calls[q].emailConfirmationToken) =>
             /\ ~(PassedConfirmedCheck(p) /\ PassedConfirmedCheck(q))
             /\ (calls[p].pc = "done" /\ calls[q].pc = "done") =>
                   ALREADY_VERIFIED_MSG \in {calls[p].result, calls[q].result}

\* Every guest Account of the tables has its creator User and a GuestToken,
\* and every User and GuestToken its Account.
GuestProfilesWhole ==
    /\ \A c \in Ids(collectives) :
          isGuestData(collectives[c].data) =>
             /\ collectives[c].CreatedByUserId \in Ids(users)
             /\ \E t \in Ids(guestTokens) : guestTokens[t].CollectiveId = c
    /\ \A u \in Ids(users) : users[u].CollectiveId \in Ids(collectives)
    /\ \A t \in Ids(guestTokens) : guestTokens[t].CollectiveId \in Ids(collectives)

\* What a step of the creation p may do to the tables: the commit adds one
\* Account, one GuestToken and at most one User; every other step, the one
\* that ends the call with an error among them, leaves the three tables as
\* they are.
CreationStep(p) ==
    transactions'[p] # transactions[p] =>
       IF transactions[p].pc = "commit"
       THEN /\ transactions'[p].result = OK
            /\ OneRowAdded(collectives, collectives')
            /\ OneRowAdded(guestTokens, guestTokens')
            /\ users' = users \/ OneRowAdded(users, users')
       ELSE /\ transactions'[p].result # OK
            /\ UNCHANGED <<collectives, users, guestTokens>>

\* C14: in every state of the tables, the state any other request reads, a
\* guest Account exists together with its creator User and its GuestToken;
\* the tables change at a creation's commit only, by the whole profile, and
\* a creation that fails (no email, an email of a confirmed User) leaves
\* the Accounts, Users and GuestTokens exactly as they were.
C14_CreationIsAllOrNothing ==
    []GuestProfilesWhole /\ [][\A p \in Creators : CreationStep(p)]_vars

\* A creation has failed on the email of a confirmed User after it wrote
\* its Account, another holds all its writes and has not committed, and the
\* tables hold no guest Account.
C14_Witness ==
    /\ \E p \in Creators : transactions[p].result = ACCOUNT_EXISTS_MSG
    /\ \E q \in Creators :
          /\ transactions[q].pc = "commit"
          /\ transactions[q].wrote = {"collective", "user", "CreatedByUserId", "token"}
    /\ \A c \in Ids(collectives) : ~isGuestData(collectives[c].data)

====
